---- MODULE Spec2Model ----
(***************************************************************************)
(* Passport Photo Resizer (src/src/App.jsx, and its fuller-featured        *)
(* variant src/unnamed/part_000): the App component's session state, its   *)
(* handlers handleFiles / getTargetSize / doResize, the cleanup effect,    *)
(* and the cover-fit crop computed in JavaScript Number arithmetic.        *)
(***************************************************************************)
EXTENDS Integers, Naturals, Sequences, FiniteSets, TLC

(***************************************************************************)
(* Bounds of the model.                                                    *)
(***************************************************************************)
\* Significant bits of a Number.  JavaScript has 53; TLC's integers are 32
\* bits wide, so the same round-to-nearest-even arithmetic is modelled at a
\* smaller precision.
Precision == 11
\* Largest source / custom target dimension drawn in SpecCrop.
MaxDim == 6
\* Number of user gestures in one run: files handed over, edits of the
\* controls, resize requests.
MaxGestures == 4

(***************************************************************************)
(* JavaScript Numbers: a finite Number is <<m, e>>, the value m * 2^e,     *)
(* kept canonical (m odd, or <<0, 0>>).  Every arithmetic operation        *)
(* rounds its exact result to Precision significant bits, ties to even.    *)
(***************************************************************************)
NaN == <<0, 1>>

Abs(n) == IF n < 0 THEN 0 - n ELSE n

Sgn(n) == IF n < 0 THEN 0 - 1 ELSE 1

Min(a, b) == IF a < b THEN a ELSE b

RECURSIVE Canon(_, _)
Canon(m, e) ==
    IF m = 0 THEN <<0, 0>>
    ELSE IF Abs(m) % 2 = 0 THEN Canon(Sgn(m) * (Abs(m) \div 2), e + 1)
    ELSE <<m, e>>

\* The Number nearest to (n / d) * 2^e, for n, d > 0.
RECURSIVE RoundPos(_, _, _)
RoundPos(n, d, e) ==
    IF n >= (2 ^ Precision) * d THEN RoundPos(n, 2 * d, e + 1)
    ELSE IF n < (2 ^ (Precision - 1)) * d THEN RoundPos(2 * n, d, e - 1)
    ELSE LET q == n \div d
             r == n % d
             m == IF 2 * r > d \/ (2 * r = d /\ q % 2 = 1) THEN q + 1 ELSE q
         IN  Canon(m, e)

\* The Number nearest to the rational (n / d) * 2^e, n of either sign, d > 0.
Round(n, d, e) ==
    IF n = 0 THEN <<0, 0>>
    ELSE LET p == RoundPos(Abs(n), d, e) IN <<Sgn(n) * p[1], p[2]>>

FromInt(n) == Round(n, 1, 0)

\* m * 2^(e - e0) for e >= e0: the mantissa of <<m, e>> at exponent e0.
AtExp(x, e0) == x[1] * (2 ^ (x[2] - e0))

FLess(x, y) ==
    LET e0 == Min(x[2], y[2]) IN AtExp(x, e0) < AtExp(y, e0)

FMul(x, y) == Round(x[1] * y[1], 1, x[2] + y[2])

FDiv(x, y) == Round(Sgn(y[1]) * x[1], Abs(y[1]), x[2] - y[2])

FSub(x, y) ==
    LET e0 == Min(x[2], y[2]) IN Round(AtExp(x, e0) - AtExp(y, e0), 1, e0)

\* x / 2 is exact.
FHalf(x) == IF x[1] = 0 THEN x ELSE <<x[1], x[2] - 1>>

\* Math.max(0, x)
FMax0(x) == IF x[1] < 0 THEN <<0, 0>> ELSE x

IsInteger(x) == x # NaN /\ x[2] >= 0

(***************************************************************************)
(* Number(value) of a custom-size field.  The field is an                  *)
(* <input type="number">: its value is "" or a decimal numeral, held here  *)
(* as a sequence of characters.                                            *)
(***************************************************************************)
DigitVal ==
    "0" :> 0 @@ "1" :> 1 @@ "2" :> 2 @@ "3" :> 3 @@ "4" :> 4 @@
    "5" :> 5 @@ "6" :> 6 @@ "7" :> 7 @@ "8" :> 8 @@ "9" :> 9

IsDigit(c) == c \in DOMAIN DigitVal

RECURSIVE DigitsValue(_)
DigitsValue(s) ==
    IF s = <<>> THEN 0
    ELSE 10 * DigitsValue(SubSeq(s, 1, Len(s) - 1)) + DigitVal[s[Len(s)]]

\* Position of the decimal point in s, or Len(s) + 1 when there is none.
PointAt(s) ==
    IF \E i \in 1..Len(s) : s[i] = "."
    THEN CHOOSE i \in 1..Len(s) : s[i] = "." /\ \A j \in 1..(i - 1) : s[j] # "."
    ELSE Len(s) + 1

\* Number(s) for an unsigned numeral s.
UnsignedNumber(s) ==
    LET p    == PointAt(s)
        int  == SubSeq(s, 1, p - 1)
        frac == SubSeq(s, p + 1, Len(s))
    IN  IF /\ Len(int) + Len(frac) > 0
           /\ \A i \in 1..Len(int) : IsDigit(int[i])
           /\ \A i \in 1..Len(frac) : IsDigit(frac[i])
        THEN Round(DigitsValue(int \o frac), 10 ^ Len(frac), 0)
        ELSE NaN

\* Number(s): "" is 0, a signed decimal numeral is its rounded value,
\* anything else is NaN.
ToNumber(s) ==
    IF s = <<>> THEN <<0, 0>>
    ELSE IF s[1] = "-" THEN
        LET u == UnsignedNumber(Tail(s)) IN IF u = NaN THEN NaN ELSE <<0 - u[1], u[2]>>
    ELSE IF s[1] = "+" THEN UnsignedNumber(Tail(s))
    ELSE UnsignedNumber(s)

\* x || 600 : 0 and NaN are falsy.
OrDefault(x) == IF x = NaN \/ x[1] = 0 THEN FromInt(600) ELSE x

\* The decimal numeral of a natural number, as a field would hold it.
RECURSIVE Numeral(_)
Numeral(n) ==
    LET c == CHOOSE ch \in DOMAIN DigitVal : DigitVal[ch] = n % 10
    IN  IF n < 10 THEN <<c>> ELSE Append(Numeral(n \div 10), c)

(***************************************************************************)
(* PRESETS and getTargetSize.                                              *)
(***************************************************************************)
PRESETS == <<
    [id |-> "sg-35x45",       w |-> 413, h |-> 531],
    [id |-> "my-35x50",       w |-> 413, h |-> 591],
    [id |-> "ph-35x45",       w |-> 413, h |-> 531],
    [id |-> "us-2x2",         w |-> 600, h |-> 600],
    [id |-> "schengen-35x45", w |-> 413, h |-> 531],
    [id |-> "custom",         w |-> 600, h |-> 600] >>

PresetIds == {PRESETS[i].id : i \in 1..Len(PRESETS)}

\* PRESETS.find((p) => p.id === id) || PRESETS[0]
FindPreset(id) ==
    IF \E i \in 1..Len(PRESETS) : PRESETS[i].id = id
    THEN PRESETS[CHOOSE i \in 1..Len(PRESETS) :
                    PRESETS[i].id = id /\ \A j \in 1..(i - 1) : PRESETS[j].id # id]
    ELSE PRESETS[1]

TargetSizeOf(pid, cw, ch) ==
    LET preset == FindPreset(pid)
    IN  IF preset.id = "custom"
        THEN [w |-> OrDefault(ToNumber(cw)), h |-> OrDefault(ToNumber(ch))]
        ELSE [w |-> FromInt(preset.w), h |-> FromInt(preset.h)]

(***************************************************************************)
(* The cover-fit crop of doResize.                                         *)
(***************************************************************************)
\* A contain-fit slip: the comparison of the two aspects reversed.
CoverFitCropReversed(srcWidth, srcHeight, targetW, targetH) ==
    LET srcW      == FromInt(srcWidth)
        srcH      == FromInt(srcHeight)
        srcAspect == FDiv(srcW, srcH)
        dstAspect == FDiv(targetW, targetH)
    IN  IF FLess(srcAspect, dstAspect)
        THEN LET newSw == FMul(srcH, dstAspect)
             IN  [sx |-> FMax0(FHalf(FSub(srcW, newSw))), sy |-> <<0, 0>>,
                  sw |-> newSw, sh |-> srcH]
        ELSE LET newSh == FDiv(srcW, dstAspect)
             IN  [sx |-> <<0, 0>>, sy |-> FMax0(FHalf(FSub(srcH, newSh))),
                  sw |-> srcW, sh |-> newSh]

\* A crop anchored at the top-left corner: the offsets never computed.
CoverFitCropUncentered(srcWidth, srcHeight, targetW, targetH) ==
    LET srcW      == FromInt(srcWidth)
        srcH      == FromInt(srcHeight)
        srcAspect == FDiv(srcW, srcH)
        dstAspect == FDiv(targetW, targetH)
    IN  IF FLess(dstAspect, srcAspect)
        THEN [sx |-> <<0, 0>>, sy |-> <<0, 0>>,
              sw |-> FMul(srcH, dstAspect), sh |-> srcH]
        ELSE [sx |-> <<0, 0>>, sy |-> <<0, 0>>,
              sw |-> srcW, sh |-> FDiv(srcW, dstAspect)]

CoverFitCrop(srcWidth, srcHeight, targetW, targetH) ==
    LET srcW      == FromInt(srcWidth)
        srcH      == FromInt(srcHeight)
        srcAspect == FDiv(srcW, srcH)
        dstAspect == FDiv(targetW, targetH)
    IN  IF FLess(dstAspect, srcAspect)
        THEN LET newSw == FMul(srcH, dstAspect)
             IN  [sx |-> FMax0(FHalf(FSub(srcW, newSw))), sy |-> <<0, 0>>,
                  sw |-> newSw, sh |-> srcH]
        ELSE LET newSh == FDiv(srcW, dstAspect)
             IN  [sx |-> <<0, 0>>, sy |-> FMax0(FHalf(FSub(srcH, newSh))),
                  sw |-> srcW, sh |-> newSh]

\* canvas.width = x : the conversion of a Number to the canvas's unsigned
\* long attribute (truncate; a value out of range leaves the default).
Trunc(x) ==
    IF x[2] >= 0 THEN x[1] * (2 ^ x[2])
    ELSE Sgn(x[1]) * (Abs(x[1]) \div (2 ^ (0 - x[2])))

CanvasDim(x, default) ==
    IF x = NaN THEN 0 ELSE IF Trunc(x) < 0 THEN default ELSE Trunc(x)

(***************************************************************************)
(* Values of the session.                                                  *)
(***************************************************************************)
\* "" as an object URL: no URL.
NoURL == 0

NoFile == [id |-> 0, name |-> <<"", "">>, type |-> <<"", "">>, pixels |-> <<0, 0>>]

NoBitmap == [id |-> 0, width |-> 0, height |-> 0, upload |-> 0]

NullBlob == [ok |-> FALSE, width |-> 0, height |-> 0, mime |-> ""]

MsgNotImage == "Please upload an image file (JPG/PNG/etc)."

MsgLoadFailed == "Failed to load image. Try another file."

MsgUploadFirst == "Please upload an image first."

MsgResizeFailed == "Something went wrong while resizing."

\* The files a user hands over: name <<stem, extension>>, declared type
\* <<category, subtype>>, and the pixel size the decoder finds in the bytes
\* (<<0, 0>>: the bytes do not decode).
FileChoices == {
    [name |-> <<"photo", "jpg">>, type |-> <<"image", "jpeg">>, pixels |-> <<6, 2>>],
    [name |-> <<"broken", "png">>, type |-> <<"image", "png">>, pixels |-> <<0, 0>>],
    [name |-> <<"notes", "txt">>, type |-> <<"text", "plain">>, pixels |-> <<0, 0>>] }

\* The values typed into the custom width / height fields.
CustomEntries == { <<>>, <<"-", "5">>, <<"2", ".", "5">>, <<"4">> }

\* The presets selected in the model.
PresetChoices == {"us-2x2", "custom"}

Formats == {"image/jpeg", "image/png"}

\* f.type.startsWith("image/")
StartsWithImage(type) == type[1] = "image"

Decodable(f) == f.pixels # <<0, 0>>

VARIABLES
    file, previewURL, bitmap, imgNatural,      \* session state (useState)
    presetId, customW, customH, format,
    generatedURL, busy, error,
    canvas,                                    \* canvasRef.current
    hasCreateImageBitmap,                      \* "createImageBitmap" in window
    decoding,                                  \* handleFiles calls awaiting the decoder
    resizing,                                  \* doResize calls awaiting the encoder
    nextURL, revoked,                          \* object URLs created / revoked
    rasters,                                   \* decoded rasters not released
    downloads,                                 \* anchor clicks, in order
    gestures,                                  \* user gestures so far (bounded)
    ev                                         \* the last event handled

session == <<file, previewURL, bitmap, imgNatural, generatedURL>>

controls == <<presetId, customW, customH, format>>

platform == <<nextURL, revoked, rasters, decoding, hasCreateImageBitmap>>

vars == <<file, previewURL, bitmap, imgNatural, presetId, customW, customH, format,
          generatedURL, busy, error, canvas, hasCreateImageBitmap, decoding,
          resizing, nextURL, revoked, rasters, downloads, gestures, ev>>

Init ==
    /\ file = NoFile
    /\ previewURL = NoURL
    /\ bitmap = NoBitmap
    /\ imgNatural = [w |-> 0, h |-> 0]
    /\ presetId = "sg-35x45"
    /\ customW = Numeral(600)
    /\ customH = Numeral(600)
    /\ format = "image/jpeg"
    /\ generatedURL = NoURL
    /\ busy = FALSE
    /\ error = ""
    /\ canvas = [width |-> 300, height |-> 150, ops |-> <<>>]
    /\ hasCreateImageBitmap \in BOOLEAN
    /\ decoding = {}
    /\ resizing = {}
    /\ nextURL = 0
    /\ revoked = {}
    /\ rasters = {}
    /\ downloads = <<>>
    /\ gestures = 0
    /\ ev = [op |-> "mount", ok |-> TRUE]

(***************************************************************************)
(* The cleanup effect on [previewURL, generatedURL]: when a render commits *)
(* with either changed, the previous render's cleanup revokes both URLs    *)
(* that render held.                                                       *)
(***************************************************************************)
EffectCleanup(oldPreview, oldGenerated, newPreview, newGenerated) ==
    IF <<oldPreview, oldGenerated>> # <<newPreview, newGenerated>>
    THEN {oldPreview, oldGenerated} \ {NoURL}
    ELSE {}

(***************************************************************************)
(* handleFiles                                                             *)
(***************************************************************************)
\* The type check made one statement too late, after setFile(f).
HandleFilesRejectAfterSetFile(f) ==
    /\ error' = MsgNotImage
    /\ file' = [id |-> gestures + 1, name |-> f.name, type |-> f.type,
                pixels |-> f.pixels]
    /\ UNCHANGED <<previewURL, bitmap, imgNatural, generatedURL, platform>>

HandleFilesReject(f) ==
    /\ error' = MsgNotImage
    /\ UNCHANGED <<session, platform>>

HandleFilesAccept(f) ==
    LET url == nextURL + 1
        f0  == [id |-> gestures + 1, name |-> f.name, type |-> f.type,
                pixels |-> f.pixels]
    IN  /\ error' = ""
        /\ file' = f0
        /\ nextURL' = url
        /\ previewURL' = url
        /\ revoked' = revoked \cup EffectCleanup(previewURL, generatedURL, url, generatedURL)
        /\ decoding' = decoding \cup
              {[id |-> f0.id, file |-> f0, url |-> url,
                attempt |-> IF hasCreateImageBitmap THEN "from-image" ELSE "img"]}
        /\ UNCHANGED <<bitmap, imgNatural, generatedURL, rasters, hasCreateImageBitmap>>

\* handleFiles(files): f is files[0], or NoFile for an empty list.
HandleFiles(f) ==
    /\ gestures < MaxGestures
    /\ gestures' = gestures + 1
    /\ ev' = [op |-> IF f = NoFile THEN "handleFiles()" ELSE "handleFiles",
              ok |-> StartsWithImage(f.type)]
    /\ IF f = NoFile THEN UNCHANGED <<session, platform, error>>
       ELSE IF ~StartsWithImage(f.type) THEN HandleFilesReject(f)
       ELSE HandleFilesAccept(f)
    /\ UNCHANGED <<controls, busy, canvas, resizing, downloads>>

\* The decoder resolves: setBitmap(bmp); setImgNatural(...).
DecodeResolve(t) ==
    /\ t \in decoding
    /\ Decodable(t.file)
    /\ LET bmp == [id |-> Cardinality(rasters) + 1, width |-> t.file.pixels[1],
                   height |-> t.file.pixels[2], upload |-> t.id]
       IN  /\ bitmap' = bmp
           /\ imgNatural' = [w |-> bmp.width, h |-> bmp.height]
           /\ rasters' = rasters \cup {bmp.id}
    /\ decoding' = decoding \ {t}
    /\ ev' = [op |-> "decoded", ok |-> TRUE]
    /\ UNCHANGED <<file, previewURL, generatedURL, controls, busy, error, canvas,
                   hasCreateImageBitmap, resizing, nextURL, revoked, downloads,
                   gestures>>

\* The decoder rejects.  The first createImageBitmap call (with the
\* imageOrientation option) is retried without the option; a rejection of
\* the retry, or of the <img> fallback, reaches the catch block.
DecodeReject(t) ==
    /\ t \in decoding
    /\ t.attempt = "from-image" \/ ~Decodable(t.file)
    /\ IF t.attempt = "from-image"
       THEN /\ decoding' = (decoding \ {t}) \cup {[t EXCEPT !.attempt = "plain"]}
            /\ UNCHANGED error
       ELSE /\ decoding' = decoding \ {t}
            /\ error' = MsgLoadFailed
    /\ ev' = [op |-> "decoded", ok |-> FALSE]
    /\ UNCHANGED <<session, controls, busy, canvas, hasCreateImageBitmap, resizing,
                   nextURL, revoked, rasters, downloads, gestures>>

(***************************************************************************)
(* The controls.                                                           *)
(***************************************************************************)
Edit ==
    /\ gestures < MaxGestures
    /\ gestures' = gestures + 1
    /\ ev' = [op |-> "edit", ok |-> TRUE]
    /\ UNCHANGED <<session, platform, busy, error, canvas, resizing, downloads>>

SetPresetId(p) == Edit /\ presetId' = p /\ UNCHANGED <<customW, customH, format>>

\* The custom fields are rendered only while presetId === "custom".
SetCustomW(s) ==
    Edit /\ presetId = "custom" /\ customW' = s /\ UNCHANGED <<presetId, customH, format>>

SetCustomH(s) ==
    Edit /\ presetId = "custom" /\ customH' = s /\ UNCHANGED <<presetId, customW, format>>

SetFormat(m) == Edit /\ format' = m /\ UNCHANGED <<presetId, customW, customH>>

getTargetSize == TargetSizeOf(presetId, customW, customH)

(***************************************************************************)
(* doResize, up to its await of canvas.toBlob.                             *)
(***************************************************************************)
\* The button disabled only while nothing is uploaded.
ResizeDisabledIgnoringBusy == bitmap.id = 0

\* The button's disabled attribute.
ResizeDisabled == busy \/ bitmap.id = 0

\* The check for a missing raster made after the canvas was sized.
DoResizeRejectLate ==
    /\ error' = MsgUploadFirst
    /\ canvas' = [width  |-> CanvasDim(getTargetSize.w, 300),
                  height |-> CanvasDim(getTargetSize.h, 150), ops |-> <<>>]
    /\ UNCHANGED <<busy, resizing>>

DoResizeReject ==
    /\ error' = MsgUploadFirst
    /\ UNCHANGED <<busy, canvas, resizing>>

\* A slip in the order of the statements: the background filled after the
\* image was drawn.
ResizeStepsFillLast == <<"canvas.size", "crop", "drawImage", "fillRect", "toBlob">>

\* The statements of doResize's try block up to its await, in program
\* order: the canvas sized, the background filled, the crop computed, the
\* image drawn, the canvas handed to the encoder.
ResizeSteps == <<"canvas.size", "fillRect", "crop", "drawImage", "toBlob">>

\* step a occurs in steps, and before every occurrence of step b.
Precedes(steps, a, b) ==
    \E i \in 1..Len(steps) :
        /\ steps[i] = a
        /\ \A j \in 1..Len(steps) : steps[j] = b => i < j

IsCanvasCall(step) == step \in {"fillRect", "drawImage"}

\* The calls the steps make on the 2d context, in order.  drawImage takes
\* the crop when it has been computed, and otherwise the initial values
\* of sx, sy, sw, sh (the whole source).
CanvasOps(steps, t, bmp, crop) ==
    LET calls == SelectSeq(steps, IsCanvasCall)
        rect  == IF Precedes(steps, "crop", "drawImage")
                 THEN <<crop.sx, crop.sy, crop.sw, crop.sh>>
                 ELSE <<<<0, 0>>, <<0, 0>>, FromInt(bmp.width), FromInt(bmp.height)>>
    IN  [i \in 1..Len(calls) |->
            IF calls[i] = "fillRect"
            THEN [op |-> "fillRect", img |-> NoBitmap, crop |-> <<>>,
                  w |-> t.w, h |-> t.h]
            ELSE [op |-> "drawImage", img |-> bmp, crop |-> rect,
                  w |-> t.w, h |-> t.h]]

\* canvas.width / canvas.height, fillRect, the crop, drawImage, toBlob.
\* (Each \E over a one-element set names a value computed once.)
DoResizeRun ==
    \E t \in {getTargetSize} :
    \E crop \in {CoverFitCrop(bitmap.width, bitmap.height, t.w, t.h)} :
    \E cv \in {[width  |-> CanvasDim(t.w, 300),
                 height |-> CanvasDim(t.h, 150),
                 ops    |-> CanvasOps(ResizeSteps, t, bitmap, crop)]} :
        /\ busy' = TRUE
        /\ error' = ""
        /\ canvas' = cv
        /\ resizing' = resizing \cup
              {[id |-> gestures + 1, targetW |-> t.w, targetH |-> t.h,
                mime |-> format, file |-> file, generatedURL |-> generatedURL,
                src |-> bitmap, snapshot |-> cv, steps |-> ResizeSteps]}

DoResize ==
    /\ gestures < MaxGestures
    /\ gestures' = gestures + 1
    /\ ev' = [op |-> "doResize", ok |-> bitmap.id # 0]
    /\ IF bitmap.id = 0 THEN DoResizeReject ELSE DoResizeRun
    /\ UNCHANGED <<session, controls, platform, downloads>>

\* A click on the resize button.
ClickResize == ~ResizeDisabled /\ DoResize

(***************************************************************************)
(* doResize, from the encoder's callback on.                               *)
(***************************************************************************)
\* What canvas.toBlob can hand to its callback for a canvas: null when the
\* canvas has no pixels, otherwise a blob or (the encoder failing) null.
EncoderResults(cv) ==
    IF cv.width = 0 \/ cv.height = 0 THEN {NullBlob}
    ELSE {NullBlob, [ok |-> TRUE, width |-> cv.width, height |-> cv.height, mime |-> ""]}

KnownExtensions == {"jpg", "jpeg", "png", "heic", "webp", "bmp"}

\* file?.name?.replace(/\.(jpg|jpeg|png|heic|webp|bmp)$/i, "") || "passport"
BaseName(f) ==
    LET stripped == IF f.name[2] \in KnownExtensions THEN <<f.name[1], "">> ELSE f.name
    IN  IF f.id = 0 \/ stripped = <<"", "">> THEN <<"passport", "">> ELSE stripped

EncodeSucceeded(r, blob) ==
    LET outURL == nextURL + 1
        ext    == IF r.mime = "image/png" THEN "png" ELSE "jpg"
    IN  /\ nextURL' = outURL
        /\ generatedURL' = outURL
        /\ revoked' = revoked
              \cup ({r.generatedURL} \ {NoURL})
              \cup EffectCleanup(previewURL, generatedURL, previewURL, outURL)
        /\ downloads' = Append(downloads,
              [href |-> outURL, base |-> BaseName(r.file), w |-> r.targetW,
               h |-> r.targetH, ext |-> ext, blob |-> blob])
        /\ busy' = FALSE
        /\ UNCHANGED error

\* The catch block without its finally: busy left set.
EncodeFailedBusyLeft(r) ==
    /\ error' = MsgResizeFailed
    /\ UNCHANGED <<busy, nextURL, generatedURL, revoked, downloads>>

\* A null blob accepted: an empty file offered for download.
EncodeFailedSilently(r) == EncodeSucceeded(r, NullBlob)

EncodeFailed(r) ==
    /\ error' = MsgResizeFailed
    /\ busy' = FALSE
    /\ UNCHANGED <<nextURL, generatedURL, revoked, downloads>>

ToBlobCallback(r, blob) ==
    /\ r \in resizing
    /\ blob \in EncoderResults(r.snapshot)
    /\ resizing' = resizing \ {r}
    /\ ev' = [op |-> "toBlob", ok |-> blob.ok]
    /\ IF blob.ok THEN EncodeSucceeded(r, [blob EXCEPT !.mime = r.mime])
       ELSE EncodeFailed(r)
    /\ UNCHANGED <<file, previewURL, bitmap, imgNatural, controls, canvas,
                   hasCreateImageBitmap, decoding, rasters, gestures>>

(***************************************************************************)
(* The specifications.                                                     *)
(***************************************************************************)
Environment ==
    \/ \E f \in FileChoices \cup {NoFile} : HandleFiles(f)
    \/ \E t \in decoding : DecodeResolve(t)
    \/ \E t \in decoding : DecodeReject(t)
    \/ \E p \in PresetChoices : SetPresetId(p)
    \/ \E s \in CustomEntries : SetCustomW(s)
    \/ \E s \in CustomEntries : SetCustomH(s)
    \/ \E m \in Formats : SetFormat(m)
    \/ \E r \in resizing : \E blob \in EncoderResults(r.snapshot) : ToBlobCallback(r, blob)

\* The application: doResize runs on a click of the resize button.
Next == Environment \/ ClickResize

Spec == Init /\ [][Next]_vars

\* The handlers on their own: doResize called whatever the button shows.
NextCall == Environment \/ DoResize

SpecCall == Init /\ [][NextCall]_vars

\* The crop as a function of its inputs: a session holding a decoded
\* raster of any size up to MaxDim, and custom target sizes up to MaxDim,
\* with one resize request left in the run.
InitCrop ==
    /\ \E w \in 1..MaxDim, h \in 1..MaxDim :
          /\ file = [id |-> 1, name |-> <<"photo", "jpg">>,
                     type |-> <<"image", "jpeg">>, pixels |-> <<w, h>>]
          /\ bitmap = [id |-> 1, width |-> w, height |-> h, upload |-> 1]
          /\ imgNatural = [w |-> w, h |-> h]
    /\ previewURL = 1
    /\ presetId = "custom"
    /\ customW \in {Numeral(n) : n \in 1..MaxDim}
    /\ customH \in {Numeral(n) : n \in 1..MaxDim}
    /\ format = "image/jpeg"
    /\ generatedURL = NoURL
    /\ busy = FALSE
    /\ error = ""
    /\ canvas = [width |-> 300, height |-> 150, ops |-> <<>>]
    /\ hasCreateImageBitmap = TRUE
    /\ decoding = {}
    /\ resizing = {}
    /\ nextURL = 1
    /\ revoked = {}
    /\ rasters = {1}
    /\ downloads = <<>>
    /\ gestures = MaxGestures - 1
    /\ ev = [op |-> "edit", ok |-> TRUE]

NextCrop ==
    \/ ClickResize
    \/ \E r \in resizing : \E blob \in EncoderResults(r.snapshot) : ToBlobCallback(r, blob)

SpecCrop == InitCrop /\ [][NextCrop]_vars

(***************************************************************************)
(* Exact arithmetic on values m * 2^e, for stating the properties.         *)
(***************************************************************************)
XInt(n) == <<n, 0>>

XMul(x, y) == <<x[1] * y[1], x[2] + y[2]>>

XAdd(x, y) == LET e0 == Min(x[2], y[2]) IN <<AtExp(x, e0) + AtExp(y, e0), e0>>

XSub(x, y) == LET e0 == Min(x[2], y[2]) IN <<AtExp(x, e0) - AtExp(y, e0), e0>>

XAbs(x) == <<Abs(x[1]), x[2]>>

XLe(x, y) == LET e0 == Min(x[2], y[2]) IN AtExp(x, e0) <= AtExp(y, e0)

XEq(x, y) == XLe(x, y) /\ XLe(y, x)

\* |x - y| <= t
XNear(x, y, t) == XLe(XAbs(XSub(x, y)), t)

\* The rounding tolerance: four units of roundoff, 4 * 2^(-Precision).
Eps == <<1, 2 - Precision>>

IsPosInt(x) == IsInteger(x) /\ x[1] >= 1

\* The drawImage calls recorded on the canvas whose target size is a pair
\* of positive integers, each as <<srcW, srcH, targetW, targetH, sx, sy, sw, sh>>.
Draws ==
    { <<XInt(op.img.width), XInt(op.img.height), op.w, op.h,
        op.crop[1], op.crop[2], op.crop[3], op.crop[4]>> :
      op \in { canvas.ops[i] : i \in { j \in 1..Len(canvas.ops) :
                 /\ canvas.ops[j].op = "drawImage"
                 /\ IsPosInt(canvas.ops[j].w) /\ IsPosInt(canvas.ops[j].h) } } }

\* srcW / srcH > targetW / targetH, exactly.
Wider(d) == ~XLe(XMul(d[1], d[4]), XMul(d[2], d[3]))

SameAspect(d) == XEq(XMul(d[1], d[4]), XMul(d[2], d[3]))

(***************************************************************************)
(* C1                                                                      *)
(***************************************************************************)
\* C1 as stated: the crop rectangle of every draw has exactly the target
\* aspect ratio (sw * targetH = sh * targetW) and lies inside the source
\* (sx >= 0, sy >= 0, sx + sw <= srcW, sy + sh <= srcH).
C1_CropExact ==
    \A d \in Draws :
        /\ XEq(XMul(d[7], d[4]), XMul(d[8], d[3]))
        /\ XLe(XInt(0), d[5]) /\ XLe(XInt(0), d[6])
        /\ XLe(XAdd(d[5], d[7]), d[1])
        /\ XLe(XAdd(d[6], d[8]), d[2])

\* C1 amended: the crop rectangle of every draw has the target aspect ratio
\* and lies inside the source up to the rounding of Number arithmetic:
\* sx >= 0, sy >= 0, |sw * targetH - sh * targetW| <= Eps * sh * targetW,
\* sx + sw <= srcW * (1 + Eps) and sy + sh <= srcH * (1 + Eps).
C1_CropWithinTolerance ==
    \A d \in Draws :
        /\ XNear(XMul(d[7], d[4]), XMul(d[8], d[3]), XMul(Eps, XMul(d[8], d[3])))
        /\ XLe(XInt(0), d[5]) /\ XLe(XInt(0), d[6])
        /\ XLe(XAdd(d[5], d[7]), XAdd(d[1], XMul(Eps, d[1])))
        /\ XLe(XAdd(d[6], d[8]), XAdd(d[2], XMul(Eps, d[2])))

\* A draw of a source taller than the target, cropped top and bottom, whose
\* crop height was rounded.
C1_Witness ==
    \E d \in Draws :
        /\ ~Wider(d) /\ ~SameAspect(d)
        /\ ~XLe(d[6], XInt(0))
        /\ ~XEq(XMul(d[7], d[4]), XMul(d[8], d[3]))

(***************************************************************************)
(* C2                                                                      *)
(***************************************************************************)
\* C2 as stated: for a source wider than the target aspect sh = srcH,
\* sw = srcH * targetW / targetH, sx = (srcW - sw) / 2, sy = 0; otherwise
\* sw = srcW, sh = srcW * targetH / targetW, sy = (srcH - sh) / 2, sx = 0;
\* and equal aspects give the full source.
C2_CropExactFormulas ==
    \A d \in Draws :
        /\ Wider(d) =>
              /\ XEq(d[8], d[2])
              /\ XEq(XMul(d[7], d[4]), XMul(d[2], d[3]))
              /\ XEq(XMul(XInt(2), d[5]), XSub(d[1], d[7]))
              /\ XEq(d[6], XInt(0))
        /\ ~Wider(d) =>
              /\ XEq(d[7], d[1])
              /\ XEq(XMul(d[8], d[3]), XMul(d[1], d[4]))
              /\ XEq(XMul(XInt(2), d[6]), XSub(d[2], d[8]))
              /\ XEq(d[5], XInt(0))
        /\ SameAspect(d) =>
              /\ XEq(d[5], XInt(0)) /\ XEq(d[6], XInt(0))
              /\ XEq(d[7], d[1]) /\ XEq(d[8], d[2])

\* C2 amended: the crop is the largest centered rectangle of the target
\* aspect up to rounding.  Each of sx, sw differs from the stated value by
\* at most Eps * srcW and each of sy, sh by at most Eps * srcH; and for
\* equal aspects sx = 0 and sw = srcW exactly.
C2_CropFormulasWithinTolerance ==
    \A d \in Draws :
        LET tw == XMul(Eps, d[1])
            th == XMul(Eps, d[2])
        IN  /\ Wider(d) =>
                  /\ XNear(d[8], d[2], th)
                  /\ XNear(XMul(d[7], d[4]), XMul(d[2], d[3]), XMul(tw, d[4]))
                  /\ XNear(XMul(XMul(XInt(2), d[5]), d[4]),
                           XSub(XMul(d[1], d[4]), XMul(d[2], d[3])),
                           XMul(XInt(2), XMul(tw, d[4])))
                  /\ XNear(d[6], XInt(0), th)
            /\ ~Wider(d) =>
                  /\ XNear(d[7], d[1], tw)
                  /\ XNear(XMul(d[8], d[3]), XMul(d[1], d[4]), XMul(th, d[3]))
                  /\ XNear(XMul(XMul(XInt(2), d[6]), d[3]),
                           XSub(XMul(d[2], d[3]), XMul(d[1], d[4])),
                           XMul(XInt(2), XMul(th, d[3])))
                  /\ XNear(d[5], XInt(0), tw)
            /\ SameAspect(d) => XEq(d[5], XInt(0)) /\ XEq(d[7], d[1])

\* A draw of a source wider than the target, cropped left and right, whose
\* crop width was rounded.
C2_Witness ==
    \E d \in Draws :
        /\ Wider(d)
        /\ ~XLe(d[5], XInt(0))
        /\ ~XEq(XMul(d[7], d[4]), XMul(d[2], d[3]))

(***************************************************************************)
(* C3                                                                      *)
(***************************************************************************)
\* C3: no two resize operations are in flight at the same time: at most one
\* doResize call is between sizing the canvas and its encoder callback.
C3_OneResizeInFlight == Cardinality(resizing) <= 1

\* A second resize in flight, started after the first one delivered its
\* download.
C3_Witness ==
    /\ Cardinality(resizing) = 1
    /\ busy
    /\ Len(downloads) = 1
    /\ \A r \in resizing : r.generatedURL = downloads[1].href

(***************************************************************************)
(* C4                                                                      *)
(***************************************************************************)
\* A doResize invocation ends: by early rejection, or in its encoder
\* callback (success or failure).
ResizeExit ==
    \/ ev'.op = "doResize" /\ ~ev'.ok
    \/ ev'.op = "toBlob"

\* C4: busy is false after every exit of doResize (success, encode failure,
\* early rejection), and busy is never true while no resize is in flight.
C4_BusyClearedOnExit ==
    /\ [](resizing = {} => ~busy)
    /\ [][ResizeExit => ~busy']_vars

\* A resize that ended in an encode failure, after which nothing is in
\* flight and the button is enabled again.
C4_Witness ==
    /\ ev.op = "toBlob" /\ ~ev.ok
    /\ resizing = {}
    /\ error = MsgResizeFailed
    /\ ~busy /\ ~ResizeDisabled

(***************************************************************************)
(* C5                                                                      *)
(***************************************************************************)
\* C5: a file whose declared type does not begin with "image/" is reported,
\* starts no decode and leaves file, previewURL, bitmap, imgNatural and
\* generatedURL as they were.
C5_NonImageRejected ==
    [][(ev'.op = "handleFiles" /\ ~ev'.ok) =>
          /\ error' = MsgNotImage
          /\ decoding' = decoding
          /\ UNCHANGED <<file, previewURL, bitmap, imgNatural, generatedURL>>]_vars

\* A text file rejected while an uploaded and decoded image is held.
C5_Witness ==
    /\ ev.op = "handleFiles" /\ ~ev.ok
    /\ error = MsgNotImage
    /\ file.id # 0 /\ bitmap.upload = file.id /\ previewURL # NoURL

(***************************************************************************)
(* C6                                                                      *)
(***************************************************************************)
\* C6: when the encoder returns no blob, the error is reported, no anchor
\* is clicked, no object URL is created and generatedURL keeps its value.
C6_EncodeFailureIsHard ==
    [][(ev'.op = "toBlob" /\ ~ev'.ok) =>
          /\ error' = MsgResizeFailed
          /\ UNCHANGED <<downloads, generatedURL, nextURL>>]_vars

\* An encode failure of a second resize: the output of the first is kept.
C6_Witness ==
    /\ ev.op = "toBlob" /\ ~ev.ok
    /\ error = MsgResizeFailed
    /\ Len(downloads) = 1 /\ generatedURL = downloads[1].href

(***************************************************************************)
(* C7                                                                      *)
(***************************************************************************)
\* C7: doResize without a decoded raster reports the error and does no
\* canvas work: the canvas is not resized, filled or drawn on, the encoder
\* is not called and nothing is downloaded.
C7_MissingSourceRejected ==
    [][(ev'.op = "doResize" /\ ~ev'.ok) =>
          /\ error' = MsgUploadFirst
          /\ UNCHANGED <<canvas, resizing, downloads, busy>>]_vars

\* doResize rejected while a file is chosen but its raster is not decoded.
C7_Witness ==
    /\ ev.op = "doResize" /\ ~ev.ok
    /\ error = MsgUploadFirst
    /\ file.id # 0 /\ bitmap.id = 0
    /\ canvas.ops = <<>> /\ resizing = {}

(***************************************************************************)
(* C8                                                                      *)
(***************************************************************************)
\* C8: every target size handed to the resize pipeline is a pair of
\* integers >= 1.
C8_TargetSizePositiveIntegers ==
    \A r \in resizing : IsPosInt(r.targetW) /\ IsPosInt(r.targetH)

(***************************************************************************)
(* C9                                                                      *)
(***************************************************************************)
\* C9: the canvas handed to the encoder has exactly the pixel dimensions
\* (targetW, targetH) of that invocation, and the download's file name
\* carries the dimensions of the encoded image.
C9_CanvasHasTargetSize ==
    /\ \A r \in resizing :
          /\ r.targetW = FromInt(r.snapshot.width)
          /\ r.targetH = FromInt(r.snapshot.height)
    /\ \A i \in 1..Len(downloads) :
          /\ downloads[i].w = FromInt(downloads[i].blob.width)
          /\ downloads[i].h = FromInt(downloads[i].blob.height)

(***************************************************************************)
(* C10                                                                     *)
(***************************************************************************)
\* C10: at most one decoded raster is held unreleased: every raster but the
\* one the session holds has been released.
C10_ReplacedRastersReleased == rasters \subseteq {bitmap.id}

(***************************************************************************)
(* C11                                                                     *)
(***************************************************************************)
Count(steps, a) == Cardinality({i \in 1..Len(steps) : steps[i] = a})

\* C11 as stated: within one resize invocation the crop rectangle is
\* computed before the background fill, the fill precedes the draw, the
\* encode starts only after the draw, and there is exactly one fill and
\* exactly one draw.
C11_CropFillDrawEncode ==
    \A r \in resizing :
        /\ Precedes(r.steps, "crop", "fillRect")
        /\ Precedes(r.steps, "fillRect", "drawImage")
        /\ Precedes(r.steps, "drawImage", "toBlob")
        /\ Count(r.steps, "fillRect") = 1 /\ Count(r.steps, "drawImage") = 1

\* C11 amended: within one resize invocation the steps happen strictly in
\* the order fill, crop-compute, draw, encode: the background is filled
\* before the crop rectangle is computed, the crop is computed before the
\* draw, the fill precedes the draw, the encode starts only after the draw,
\* and the canvas handed to the encoder holds exactly one fill followed by
\* exactly one draw, the draw taking the computed crop.
C11_FillCropDrawEncode ==
    \A r \in resizing :
        /\ Precedes(r.steps, "fillRect", "crop")
        /\ Precedes(r.steps, "crop", "drawImage")
        /\ Precedes(r.steps, "fillRect", "drawImage")
        /\ Precedes(r.steps, "drawImage", "toBlob")
        /\ Count(r.steps, "fillRect") = 1 /\ Count(r.steps, "drawImage") = 1
        /\ Len(r.snapshot.ops) = 2
        /\ r.snapshot.ops[1].op = "fillRect"
        /\ r.snapshot.ops[2].op = "drawImage"
        /\ \E c \in {CoverFitCrop(r.src.width, r.src.height, r.targetW, r.targetH)} :
              r.snapshot.ops[2].crop = <<c.sx, c.sy, c.sw, c.sh>>

\* A resize awaiting its encoder, whose canvas was filled and then drawn on
\* with a crop narrower than the source.
C11_Witness ==
    \E r \in resizing :
        /\ Len(r.snapshot.ops) = 2
        /\ r.snapshot.ops[2].op = "drawImage"
        /\ r.snapshot.ops[2].crop[3] # FromInt(r.src.width)
        /\ canvas = r.snapshot

(***************************************************************************)
(* C12                                                                     *)
(***************************************************************************)
\* C12: whenever no decode is in flight, the raster the session holds
\* (bitmap, imgNatural) was decoded from the selected file (file,
\* previewURL).
C12_RasterIsOfSelectedFile ==
    (decoding = {} /\ bitmap.id # 0) =>
        /\ bitmap.upload = file.id
        /\ imgNatural = [w |-> file.pixels[1], h |-> file.pixels[2]]

(***************************************************************************)
(* C13                                                                     *)
(***************************************************************************)
\* C13: the object URLs held in previewURL and generatedURL are unrevoked.
C13_HeldURLsNotRevoked ==
    /\ previewURL # NoURL => previewURL \notin revoked
    /\ generatedURL # NoURL => generatedURL \notin revoked

====
